---- MODULE Spec2Model ----
(***************************************************************************)
(* Model of shapash/utils/check.py: the input-validation guards            *)
(* check_model, check_label_dict, check_mask_params, check_ypred and       *)
(* validate_contributions.                                                 *)
(*                                                                         *)
(* Every guard is a function of its arguments.  A behaviour is one call:   *)
(* the initial state holds the arguments the caller built (pc = "call"),   *)
(* the guard's action computes its outcome (pc = "done").  check_ypred has *)
(* a second action in which the caller hands the returned value back to    *)
(* the guard (pc = "redone").                                              *)
(*                                                                         *)
(* Python values are tagged records.  The spec's words map to Python types *)
(* as the code tests them: "ordered sequence" is list, "array" is          *)
(* numpy.ndarray, "table" is pandas.DataFrame, "one-dimensional sequence"  *)
(* is pandas.Series, "mapping" is dict, "null" is None.                    *)
(***************************************************************************)
EXTENDS Integers, Sequences, FiniteSets, TLC

VARIABLES pc, args, ret

vars == <<pc, args, ret>>

(***************************************************************************)
(* Bounds of the model.                                                    *)
(***************************************************************************)
\* class labels are 0..MaxLabel
MaxLabel == 1
\* a classes list has at most MaxClasses items
MaxClasses == 2
\* an index has at most MaxRows entries, each in 0..MaxIdx
MaxRows == 2
MaxIdx == 1
\* a table has at most MaxCols columns
MaxCols == 2

(***************************************************************************)
(* Python values and call outcomes.                                        *)
(***************************************************************************)
\* an attribute the object does not have (hasattr is False)
Absent == [kind |-> "absent", items |-> <<>>]

None == [kind |-> "None", items |-> <<>>]

PyList(s) == [kind |-> "list", items |-> s]

NdArray(s) == [kind |-> "ndarray", items |-> s]

Return(v) == [kind |-> "return", value |-> v, exc |-> "", msg |-> ""]

Raise(e, m) == [kind |-> "raise", value |-> None, exc |-> e, msg |-> m]

\* ret before the call has been made
Pending == [kind |-> "pending", value |-> None, exc |-> "", msg |-> ""]

Labels == 0..MaxLabel

SeqsUpTo(S, n) == UNION {[1..k -> S] : k \in 0..n}

ClassSeqs == SeqsUpTo(Labels, MaxClasses)

\* the values a classes attribute holds: None, a list, an ndarray
ClassValues == {None} \cup {PyList(s) : s \in ClassSeqs} \cup {NdArray(s) : s \in ClassSeqs}

\* a model handle: its capabilities, and its two classes attributes
Models == [predict : BOOLEAN, predict_proba : BOOLEAN,
           private_classes : ClassValues \cup {Absent},
           classes_ : ClassValues \cup {Absent}]

(***************************************************************************)
(* check_model                                                             *)
(***************************************************************************)
\* the messages of the two ValueErrors check_model raises
MissingClassesError == "No attribute _classes, classification model not supported"

MissingPredictError == "No method predict in the specified model. Please, check model parameter"

\* hasattr(model, attrib) for the two classes attributes
HasAttr(v) == v.kind # "absent"

\* lines 47-48 with the private attribute winning
ResolveClassesPrivateFirst(model) ==
    LET c0 == None
        c1 == IF HasAttr(model.classes_) THEN model.classes_ ELSE c0
        c2 == IF HasAttr(model.private_classes) THEN model.private_classes ELSE c1
    IN  c2

\* lines 43, 47-48: _classes = None; then model._classes, then model.classes_
\* (the later assignment, of the public attribute, overwrites the earlier)
ResolveClasses(model) ==
    LET c0 == None
        c1 == IF HasAttr(model.private_classes) THEN model.private_classes ELSE c0
        c2 == IF HasAttr(model.classes_) THEN model.classes_ ELSE c1
    IN  c2

\* line 49: an ndarray becomes a list
ToList(c) == IF c.kind = "ndarray" THEN PyList(c.items) ELSE c

\* line 50 without the substitution
SubstituteBinaryNever(model, c) == c

\* line 50: predict_proba and _classes == [] gives [0, 1]
SubstituteBinary(model, c) ==
    IF model.predict_proba /\ c = PyList(<<>>) THEN PyList(<<0, 1>>) ELSE c

\* line 51 testing for the empty list in place of None
MustRaiseMissingClassesOnEmpty(model, c) == model.predict_proba /\ c = PyList(<<>>)

\* line 51: predict_proba and _classes is None
MustRaiseMissingClasses(model, c) == model.predict_proba /\ c = None

\* line 55 with the empty list counted as classes
IsClassificationNonNull(c) == c # None

\* line 55: _classes not in (None, [])
IsClassification(c) == c \notin {None, PyList(<<>>)}

\* lines 59-62 falling through to a regression result
NoPredictAsRegression(model) == Return([case |-> "regression", classes |-> None])

\* lines 59-62: the else branch of hasattr(model, 'predict')
NoPredict(model) == Raise("ValueError", MissingPredictError)

\* lines 43-62
check_model(model) ==
    IF model.predict
    THEN LET enter == model.predict_proba \/ HasAttr(model.classes_)
                          \/ HasAttr(model.private_classes)
             c == IF enter
                  THEN SubstituteBinary(model, ToList(ResolveClasses(model)))
                  ELSE None
         IN  IF enter /\ MustRaiseMissingClasses(model, c)
             THEN Raise("ValueError", MissingClassesError)
             ELSE IF IsClassification(c)
                  THEN Return([case |-> "classification", classes |-> c])
                  ELSE Return([case |-> "regression", classes |-> None])
    ELSE NoPredict(model)

InitModel ==
    /\ pc = "call"
    /\ args \in [model : Models]
    /\ ret = Pending

CallCheckModel ==
    /\ pc = "call"
    /\ pc' = "done"
    /\ ret' = check_model(args.model)
    /\ UNCHANGED args

NextModel == CallCheckModel

SpecModel == InitModel /\ [][NextModel]_vars

(***************************************************************************)
(* Claims about check_model, checked under SpecModel.                      *)
(***************************************************************************)
\* the call of check_model has been made
ModelDone == pc = "done" /\ "model" \in DOMAIN args

\* the model has both classes attributes, holding different values
BothClassesDiffer ==
    /\ HasAttr(args.model.private_classes)
    /\ HasAttr(args.model.classes_)
    /\ args.model.private_classes # args.model.classes_

\* v holds at least one label (a list or an ndarray)
NonEmptyClasses(v) == v.kind \in {"list", "ndarray"} /\ v.items # <<>>

\* v is an empty list or an empty ndarray
EmptyClasses(v) == v.kind \in {"list", "ndarray"} /\ v.items = <<>>

\* C1 as stated: when the model has predict and both _classes and classes_,
\* with different values, and _classes holds labels, check_model returns
\* "classification" with the labels of the private attribute _classes.
C1_PrivatePreferred ==
    (ModelDone /\ args.model.predict /\ BothClassesDiffer
        /\ NonEmptyClasses(args.model.private_classes))
    => ret = Return([case |-> "classification",
                     classes |-> PyList(args.model.private_classes.items)])

\* C1 amended: when the model has predict and both _classes and classes_, with
\* different values, the classes are taken from the public attribute classes_:
\* if classes_ holds labels, check_model returns "classification" with exactly
\* those labels, and if classes_ is None the labels of _classes are not used
\* (MissingClassesError with predict_proba, "regression" without).
C1_PublicPreferred ==
    (ModelDone /\ args.model.predict /\ BothClassesDiffer)
    => /\ NonEmptyClasses(args.model.classes_)
          => ret = Return([case |-> "classification",
                           classes |-> PyList(args.model.classes_.items)])
       /\ args.model.classes_ = None
          => ret = IF args.model.predict_proba
                   THEN Raise("ValueError", MissingClassesError)
                   ELSE Return([case |-> "regression", classes |-> None])

C1_Witness ==
    /\ ModelDone /\ args.model.predict /\ BothClassesDiffer
    /\ args.model.private_classes = PyList(<<0>>)
    /\ args.model.classes_ = NdArray(<<1, 0>>)
    /\ ret = Return([case |-> "classification", classes |-> PyList(<<1, 0>>)])

\* C2: a model with predict and predict_proba whose derived classes (the
\* resolved attribute, an array converted to a list) is the empty list gets
\* case "classification" and classes [0, 1].
C2_EmptyClassesBinary ==
    (ModelDone /\ args.model.predict /\ args.model.predict_proba
        /\ ToList(ResolveClasses(args.model)) = PyList(<<>>))
    => ret = Return([case |-> "classification", classes |-> PyList(<<0, 1>>)])

C2_Witness ==
    /\ ModelDone /\ args.model.predict /\ args.model.predict_proba
    /\ args.model.classes_ = NdArray(<<>>)
    /\ args.model.private_classes = Absent
    /\ ret.kind = "return" /\ ret.value.classes = PyList(<<0, 1>>)

\* C3: a model with predict and predict_proba and no resolvable classes
\* (neither attribute present, or the resolved value None) makes check_model
\* raise the missing-classes error; nothing is returned.
C3_MissingClasses ==
    (ModelDone /\ args.model.predict /\ args.model.predict_proba
        /\ \/ ~HasAttr(args.model.private_classes) /\ ~HasAttr(args.model.classes_)
           \/ ResolveClasses(args.model) = None)
    => ret = Raise("ValueError", MissingClassesError)

C3_Witness ==
    /\ ModelDone /\ args.model.predict /\ args.model.predict_proba
    /\ args.model.private_classes = PyList(<<0, 1>>)
    /\ args.model.classes_ = None
    /\ ret.kind = "raise" /\ ret.msg = MissingClassesError

\* C4: a model without predict makes check_model raise the missing-predict
\* error whatever else it has, and that error is not the missing-classes one.
C4_MissingPredict ==
    (ModelDone /\ ~args.model.predict)
    => /\ ret = Raise("ValueError", MissingPredictError)
       /\ ret.msg # MissingClassesError

C4_Witness ==
    /\ ModelDone /\ ~args.model.predict /\ args.model.predict_proba
    /\ args.model.private_classes = None
    /\ NonEmptyClasses(args.model.classes_)
    /\ ret.kind = "raise" /\ ret.msg = MissingPredictError

\* the model's classes attributes, those it has
PresentClasses == {v \in {args.model.private_classes, args.model.classes_} : HasAttr(v)}

\* C5: a non-failing check_model returns ("classification", classes) with
\* classes a non-empty list, or ("regression", None).  predict alone, and
\* predict with empty classes and no predict_proba, give ("regression", None);
\* predict with non-empty classes gives "classification" without predict_proba.
C5_TwoShapes ==
    (ModelDone /\ ret.kind = "return")
    => /\ \/ /\ ret.value.case = "classification"
             /\ ret.value.classes.kind = "list"
             /\ ret.value.classes.items # <<>>
          \/ ret.value = [case |-> "regression", classes |-> None]
       /\ (~args.model.predict_proba /\ PresentClasses = {})
          => ret.value.case = "regression"
       /\ (~args.model.predict_proba /\ PresentClasses # {}
              /\ \A v \in PresentClasses : EmptyClasses(v))
          => ret.value.case = "regression"
       /\ (~args.model.predict_proba /\ PresentClasses # {}
              /\ \A v \in PresentClasses : NonEmptyClasses(v))
          => ret.value.case = "classification"

C5_Witness ==
    /\ ModelDone /\ args.model.predict /\ ~args.model.predict_proba
    /\ args.model.classes_ = NdArray(<<>>)
    /\ ret = Return([case |-> "regression", classes |-> None])

(***************************************************************************)
(* check_label_dict                                                        *)
(***************************************************************************)
\* the case strings check_model returns
Cases == {"classification", "regression"}

\* the classes check_model returns: None or a list of labels
ClassesArgs == {None} \cup {PyList(s) : s \in ClassSeqs}

PyDict(f) == [kind |-> "dict", items |-> f]

\* the display names a label dictionary maps to
LabelNames == {"no", "yes"}

\* label_dict: None, or a dict from labels to display names
LabelDicts == {None} \cup {PyDict(f) : f \in UNION {[K -> LabelNames] : K \in SUBSET Labels}}

\* set(classes) of a list
SetOf(c) == {c.items[i] : i \in DOMAIN c.items}

\* the ValueError check_label_dict raises
LabelMismatchError == "label_dict and don't match"

\* line 78 testing only that every class has a key
LabelSetsDifferOneWay(label_dict, classes) ==
    SetOf(classes) \ DOMAIN label_dict.items # {}

\* line 78: set(classes) != set(list(label_dict.keys()))
LabelSetsDiffer(label_dict, classes) ==
    SetOf(classes) # DOMAIN label_dict.items

\* lines 77-83; set(None) is a TypeError
check_label_dict(label_dict, case, classes) ==
    IF label_dict.kind # "None" /\ case = "classification"
    THEN IF classes.kind = "None"
         THEN Raise("TypeError", "'NoneType' object is not iterable")
         ELSE IF LabelSetsDiffer(label_dict, classes)
              THEN Raise("ValueError", LabelMismatchError)
              ELSE Return(None)
    ELSE Return(None)

InitLabel ==
    /\ pc = "call"
    /\ args \in [label_dict : LabelDicts, case : Cases, classes : ClassesArgs]
    /\ ret = Pending

CallCheckLabelDict ==
    /\ pc = "call"
    /\ pc' = "done"
    /\ ret' = check_label_dict(args.label_dict, args.case, args.classes)
    /\ UNCHANGED args

NextLabel == CallCheckLabelDict

SpecLabel == InitLabel /\ [][NextLabel]_vars

(***************************************************************************)
(* check_mask_params                                                       *)
(***************************************************************************)
\* the keys a caller may put in mask_params: the four conform ones, the
\* singular spelling the error message prints, and an unrelated one
MaskKeys == {"features_to_hide", "threshold", "positive", "max_contrib",
             "feature_to_hide", "other"}

\* the values under those keys
MaskValues == {None, PyList(<<>>)}

\* mask_params: None, a list, or a dict
MaskParams ==
    {None, PyList(<<>>)} \cup {PyDict(f) : f \in UNION {[K -> MaskValues] : K \in SUBSET MaskKeys}}

\* the two ValueErrors check_mask_params raises
MaskNotDictError == "mask_params must be a dict"

MaskKeysError == "mask_params must only have the following key arguments"

\* line 101 with the first key spelled as the error message spells it
ConformArgumentsAsPrinted == {"feature_to_hide", "threshold", "positive", "max_contrib"}

\* line 101: conform_arguments
ConformArguments == {"features_to_hide", "threshold", "positive", "max_contrib"}

\* lines 94-113
check_mask_params(mask_params) ==
    IF mask_params.kind # "dict"
    THEN Raise("ValueError", MaskNotDictError)
    ELSE LET mask_arguments_not_conform ==
                 {argument \in DOMAIN mask_params.items : argument \notin ConformArguments}
         IN  IF Cardinality(mask_arguments_not_conform) # 0
             THEN Raise("ValueError", MaskKeysError)
             ELSE Return(None)

InitMask ==
    /\ pc = "call"
    /\ args \in [mask_params : MaskParams]
    /\ ret = Pending

CallCheckMaskParams ==
    /\ pc = "call"
    /\ pc' = "done"
    /\ ret' = check_mask_params(args.mask_params)
    /\ UNCHANGED args

NextMask == CallCheckMaskParams

SpecMask == InitMask /\ [][NextMask]_vars

(***************************************************************************)
(* validate_contributions                                                  *)
(***************************************************************************)
\* a contributions object that is one array, or one table
OneArray == [kind |-> "ndarray", items |-> <<>>]

OneTable == [kind |-> "DataFrame", items |-> <<>>]

\* contributions: None, an array, a table, or a list of arrays and tables,
\* up to one longer than the longest classes list
Contributions ==
    {None, OneArray, OneTable}
        \cup {PyList(s) : s \in SeqsUpTo({"ndarray", "DataFrame"}, MaxClasses + 1)}

\* the three ValueErrors validate_contributions raises
ContribRegressionError == "Type of contributions parameter specified is not compatible with regression model."

ContribLengthError == "Length of list of contributions parameter is not equal to the number of classes in the target."

ContribClassificationError == "Type of contributions parameter specified is not compatible with classification model."

\* line 170 rejecting only the lists that are too short
LengthDiffersShortOnly(contributions, classes) ==
    Len(contributions.items) < Len(classes.items)

\* line 170: len(contributions) != len(classes)
LengthDiffers(contributions, classes) ==
    Len(contributions.items) # Len(classes.items)

\* lines 160-185; len(None) is a TypeError; no branch returns a value
validate_contributions(case, classes, contributions) ==
    IF case = "regression" /\ contributions.kind \notin {"ndarray", "DataFrame"}
    THEN Raise("ValueError", ContribRegressionError)
    ELSE IF case = "classification"
         THEN IF contributions.kind = "list"
              THEN IF classes.kind = "None"
                   THEN Raise("TypeError", "object of type 'NoneType' has no len()")
                   ELSE IF LengthDiffers(contributions, classes)
                        THEN Raise("ValueError", ContribLengthError)
                        ELSE Return(None)
              ELSE Raise("ValueError", ContribClassificationError)
         ELSE Return(None)

InitContrib ==
    /\ pc = "call"
    /\ args \in [case : Cases, classes : ClassesArgs, contributions : Contributions]
    /\ ret = Pending

CallValidateContributions ==
    /\ pc = "call"
    /\ pc' = "done"
    /\ ret' = validate_contributions(args.case, args.classes, args.contributions)
    /\ UNCHANGED args

NextContrib == CallValidateContributions

SpecContrib == InitContrib /\ [][NextContrib]_vars

(***************************************************************************)
(* Claims about check_label_dict (SpecLabel), check_mask_params (SpecMask) *)
(* and validate_contributions (SpecContrib).                               *)
(***************************************************************************)
LabelDone == pc = "done" /\ "label_dict" \in DOMAIN args

\* C8: with case "classification", a label_dict and a classes list,
\* check_label_dict raises the label-mismatch error exactly when the set of
\* keys differs from the set of classes (order and repeats of classes do not
\* count) and returns otherwise; with label_dict None, or a case other than
\* "classification", it returns, whatever classes is, None included.
C8_LabelDict ==
    LabelDone
    => /\ (args.case = "classification" /\ args.label_dict.kind = "dict"
              /\ args.classes.kind = "list")
          => /\ ret = Raise("ValueError", LabelMismatchError)
                <=> DOMAIN args.label_dict.items
                        # {args.classes.items[i] : i \in DOMAIN args.classes.items}
             /\ ret \in {Raise("ValueError", LabelMismatchError), Return(None)}
       /\ (args.label_dict = None \/ args.case # "classification")
          => ret = Return(None)

\* keys {0, 1} against classes [1, 1]: the sets differ though every class has a key
C8_Witness ==
    /\ LabelDone /\ args.case = "classification"
    /\ args.label_dict.kind = "dict" /\ DOMAIN args.label_dict.items = {0, 1}
    /\ args.classes = PyList(<<1, 1>>)
    /\ ret = Raise("ValueError", LabelMismatchError)

MaskDone == pc = "done" /\ "mask_params" \in DOMAIN args

ContribDone == pc = "done" /\ "contributions" \in DOMAIN args

\* one of the ValueErrors of validate_contributions
InvalidContributionsError ==
    /\ ret.kind = "raise" /\ ret.exc = "ValueError"
    /\ ret.msg \in {ContribRegressionError, ContribLengthError, ContribClassificationError}

\* C9: validate_contributions raises a ValueError when case is "regression"
\* and contributions is neither an array nor a table, when case is
\* "classification" and contributions is not a list, and when it is a list
\* whose length is not the number of classes; it returns when case is
\* "regression" and contributions is an array or a table, and when case is
\* "classification" and contributions is a list of len(classes) items.
C9_Contributions ==
    ContribDone
    => /\ (args.case = "regression"
              /\ args.contributions.kind \notin {"ndarray", "DataFrame"})
          => InvalidContributionsError
       /\ (args.case = "classification" /\ args.contributions.kind # "list")
          => InvalidContributionsError
       /\ (args.case = "classification" /\ args.contributions.kind = "list"
              /\ args.classes.kind = "list"
              /\ Len(args.contributions.items) # Len(args.classes.items))
          => InvalidContributionsError
       /\ (args.case = "regression"
              /\ args.contributions.kind \in {"ndarray", "DataFrame"})
          => ret = Return(None)
       /\ (args.case = "classification" /\ args.contributions.kind = "list"
              /\ args.classes.kind = "list"
              /\ Len(args.contributions.items) = Len(args.classes.items))
          => ret = Return(None)

\* a list longer than the classes list
C9_Witness ==
    /\ ContribDone /\ args.case = "classification"
    /\ args.classes = PyList(<<0, 1>>)
    /\ args.contributions.kind = "list" /\ Len(args.contributions.items) = 3
    /\ ret = Raise("ValueError", ContribLengthError)

(***************************************************************************)
(* check_ypred                                                             *)
(*                                                                         *)
(* A pandas object is [kind, index, columns, values]: index is the         *)
(* sequence of row labels, columns the sequence of [name, dtype] (a Series *)
(* has exactly one, its own name and dtype), values stands for the data    *)
(* it holds.  A column name is "0" or "1" for the integer labels 0 and 1,  *)
(* "y" for a string label, and "None" for a Series without a name.         *)
(***************************************************************************)
Indexes == SeqsUpTo(0..MaxIdx, MaxRows)

Dtypes == {"int64", "int32", "float64", "float32", "object"}

\* the integer labels among the column names
IntNames == {"0", "1"}

ColNames == IntNames \cup {"y"}

DataValues == {"v", "w"}

NoObject == [kind |-> "None", index |-> <<>>, columns |-> <<>>, values |-> ""]

DataFrame(i, c, v) == [kind |-> "DataFrame", index |-> i, columns |-> c, values |-> v]

Series(i, n, d, v) ==
    [kind |-> "Series", index |-> i, columns |-> <<[name |-> n, dtype |-> d]>>, values |-> v]

\* the columns of a table
ColumnSeqs == SeqsUpTo([name : ColNames, dtype : Dtypes], MaxCols)

\* the names of a Series
SeriesNames == ColNames \cup {"None"}

\* objects that are neither a table nor a Series: a list, an ndarray
OtherObjects ==
    {[kind |-> k, index |-> <<>>, columns |-> <<>>, values |-> "v"] : k \in {"list", "ndarray"}}

\* x: only its index is read
Xs == {DataFrame(i, <<>>, "x") : i \in Indexes}

\* np.dtype(int), the dtype np.int compares equal to: the C long of the platform
NpInts == {"int64", "int32"}

\* the four ValueErrors check_ypred raises
YpredCaseError == "ypred should not be specified in classification problems."

YpredShapeError == "y_pred must be a one column pd.Dataframe or pd.Series."

YpredIndexError == "x_pred and y_pred should have the same index."

YpredDtypeError == "y_pred must contain int or float only"

\* line 133: ypred.index.equals(x.index)
IndexEquals(a, b) == a.index = b.index

\* lines 138, 141: dtype in [np.float, np.int]; a dtype equals np.float when
\* it is float64 and np.int when it is np.dtype(int)
DtypeAccepted(dtype, np_int) == dtype \in {"float64", np_int}

\* line 138: ypred.dtypes[0] succeeds.  dtypes is a Series indexed by the
\* column names: with integer names [0] looks up the label 0, otherwise it is
\* the first position.  Reached with at most one column.
DtypesHasZero(ypred) ==
    /\ Len(ypred.columns) > 0
    /\ (\A k \in DOMAIN ypred.columns : ypred.columns[k].name \in IntNames)
       => \E k \in DOMAIN ypred.columns : ypred.columns[k].name = "0"

\* line 138: the value of ypred.dtypes[0] when the lookup succeeds
DtypesZero(ypred) ==
    IF \A k \in DOMAIN ypred.columns : ypred.columns[k].name \in IntNames
    THEN ypred.columns[CHOOSE k \in DOMAIN ypred.columns : ypred.columns[k].name = "0"].dtype
    ELSE ypred.columns[1].dtype

\* line 143: Series.to_frame(); the column is named after the Series, 0 if
\* it has no name
to_frame(s) ==
    DataFrame(s.index,
              <<[name |-> IF s.columns[1].name = "None" THEN "0" ELSE s.columns[1].name,
                 dtype |-> s.columns[1].dtype]>>,
              s.values)

\* lines 128-144.  A failed dtypes[0] is a KeyError or an IndexError
\* (by pandas version), both LookupErrors.
check_ypred(case, x, ypred, np_int) ==
    IF ypred.kind = "None" THEN Return(ypred)
    ELSE IF case # "classification" THEN Raise("ValueError", YpredCaseError)
    ELSE IF ypred.kind \notin {"DataFrame", "Series"} THEN Raise("ValueError", YpredShapeError)
    ELSE IF ~IndexEquals(ypred, x) THEN Raise("ValueError", YpredIndexError)
    ELSE IF ypred.kind = "DataFrame"
         THEN IF Len(ypred.columns) > 1 THEN Raise("ValueError", YpredShapeError)
              ELSE IF ~DtypesHasZero(ypred) THEN Raise("LookupError", "dtypes[0]")
              ELSE IF ~DtypeAccepted(DtypesZero(ypred), np_int)
                   THEN Raise("ValueError", YpredDtypeError)
                   ELSE Return(ypred)
         ELSE IF ~DtypeAccepted(ypred.columns[1].dtype, np_int)
              THEN Raise("ValueError", YpredDtypeError)
              ELSE Return(to_frame(ypred))

\* ypred is None, a table, a Series, or an object that is neither
InitYpred ==
    /\ pc = "call"
    /\ ret = Pending
    /\ \E case \in Cases, x \in Xs, np_int \in NpInts :
          \/ \E o \in {NoObject} \cup OtherObjects :
                args = [case |-> case, x |-> x, ypred |-> o, np_int |-> np_int]
          \/ \E i \in Indexes, c \in ColumnSeqs, v \in DataValues :
                args = [case |-> case, x |-> x, ypred |-> DataFrame(i, c, v),
                        np_int |-> np_int]
          \/ \E i \in Indexes, n \in SeriesNames, d \in Dtypes, v \in DataValues :
                args = [case |-> case, x |-> x, ypred |-> Series(i, n, d, v),
                        np_int |-> np_int]

CallCheckYpred ==
    /\ pc = "call"
    /\ pc' = "done"
    /\ ret' = check_ypred(args.case, args.x, args.ypred, args.np_int)
    /\ UNCHANGED args

\* the caller uses the returned value as its ypred and checks it again
RecheckYpred ==
    /\ pc = "done"
    /\ ret.kind = "return"
    /\ pc' = "redone"
    /\ args' = [args EXCEPT !.ypred = ret.value]
    /\ ret' = check_ypred(args'.case, args'.x, args'.ypred, args'.np_int)

NextYpred == CallCheckYpred \/ RecheckYpred

SpecYpred == InitYpred /\ [][NextYpred]_vars

(***************************************************************************)
(* Claims about check_ypred, checked under SpecYpred.                      *)
(***************************************************************************)
YpredDone == pc = "done" /\ "ypred" \in DOMAIN args

\* one of the ValueErrors of check_ypred
InvalidYPredError ==
    /\ ret.kind = "raise" /\ ret.exc = "ValueError"
    /\ ret.msg \in {YpredCaseError, YpredShapeError, YpredIndexError, YpredDtypeError}

\* the integer and floating-point dtypes
IntOrFloat == {"int64", "int32", "float64", "float32"}

\* C6: for a ypred that is not None, check_ypred raises its ValueError when
\* case is not "classification", when ypred is neither a table nor a Series,
\* when its index differs from x's, when it is a table whose number of columns
\* is not one (more than one, and zero), and when its dtype is neither integer
\* nor floating-point.
C6_YpredRejected ==
    (YpredDone /\ args.ypred.kind # "None")
    => /\ args.case # "classification" => InvalidYPredError
       /\ args.ypred.kind \notin {"DataFrame", "Series"} => InvalidYPredError
       /\ (args.ypred.kind \in {"DataFrame", "Series"}
              /\ args.ypred.index # args.x.index)
          => InvalidYPredError
       /\ (args.ypred.kind = "DataFrame" /\ Len(args.ypred.columns) # 1)
          => InvalidYPredError
       /\ (args.ypred.kind \in {"DataFrame", "Series"}
              /\ Len(args.ypred.columns) = 1
              /\ args.ypred.columns[1].dtype \notin IntOrFloat)
          => InvalidYPredError

\* C7: check_ypred returns None for a None ypred, whatever case and x; under
\* "classification" a Series with x's index and an integer or floating-point
\* dtype comes back as a one-column table with the same index and values, and
\* a one-column table with x's index and such a dtype comes back as it is; the
\* caller's object is not changed by the call; check_ypred applied to its own
\* result returns that result.
C7_YpredAccepted ==
    /\ (YpredDone /\ args.ypred.kind = "None") => ret = Return(args.ypred)
    /\ (YpredDone /\ args.case = "classification" /\ args.ypred.kind = "Series"
           /\ args.ypred.index = args.x.index
           /\ args.ypred.columns[1].dtype \in IntOrFloat)
       => /\ ret.kind = "return"
          /\ ret.value.kind = "DataFrame"
          /\ Len(ret.value.columns) = 1
          /\ ret.value.columns[1].dtype = args.ypred.columns[1].dtype
          /\ ret.value.index = args.ypred.index
          /\ ret.value.values = args.ypred.values
    /\ (YpredDone /\ args.case = "classification" /\ args.ypred.kind = "DataFrame"
           /\ args.ypred.index = args.x.index
           /\ Len(args.ypred.columns) = 1
           /\ args.ypred.columns[1].dtype \in IntOrFloat)
       => ret = Return(args.ypred)
    /\ (pc = "redone" /\ "ypred" \in DOMAIN args) => ret = Return(args.ypred)

====
